---- MODULE Spec2Model ----
(***************************************************************************)
(* Biomedical-equipment management backend: role policy, ticket /         *)
(* equipment / maintenance lifecycle and notification dispatch.           *)
(* A request handler is one atomic step on the persisted rows, except in  *)
(* the dispatch and session specifications, which split a handler at its  *)
(* commits and at its database statements.                                *)
(***************************************************************************)
EXTENDS Integers, Sequences, FiniteSets, TLC

\* ------------------------------------------------------------------ bounds
MaxNotifs == 2      \* rows the notifications table may hold
MaxRepair == 2      \* cap on repair_count
MaxClock == 1       \* last reading of the clock
TicksPerDay == 2    \* clock ticks in one day

\* ------------------------------------------------------------ enumerations
None == 0
Unset == -1
NoDate == -1

UserRole == {"super_admin", "manager", "department_head", "support", "department_incharge"}

TicketStatus == {"open", "in_progress", "resolved", "closed"}

EquipmentStatus == {"active", "out_of_service", "retired"}

\* Primary keys. Three users, one department, one equipment, one schedule and
\* room for one ticket; requests may also name a key that has no row.
UserIds == {1, 2, 3}
DeptIds == {1}
EquipIds == {1, 2}
SchedIds == {1}
TicketIds == {1}
SupplierIds == {1}

\* Database sessions, one per request in flight.
SessionIds == {1, 2}

\* Keys for the rows that register_user and create_department add.
RegisteredUserIds == {4}
CreatedDeptIds == {2}

\* Ids a request may name: the rows that exist and one that does not.
\* The equipment present from the start; the other ids are for created rows.
SeedEquipIds == {1}
EquipIdInputs == EquipIds \cup {Cardinality(EquipIds) + 1}
SchedIdInputs == SchedIds \cup {Cardinality(SchedIds) + 1}

\* sessions: the requests in flight, each at one of its database statements.
VARIABLES users, departments, suppliers, equipment, tickets, schedules, notifications, clock,
          sessions

vars == <<users, departments, suppliers, equipment, tickets, schedules, notifications, clock,
          sessions>>

\* ------------------------------------------------------------- role policy
can_resolve_or_close_ticket_anyone(role) == TRUE

can_resolve_or_close_ticket(role) == role /= "department_incharge"

can_close_ticket_departmentHead(role) ==
    role \in {"super_admin", "manager", "department_head"}

can_close_ticket(role) == role \in {"super_admin", "manager"}

can_update_equipment_status(role) == role \in {"super_admin", "manager", "department_head"}

is_manager_or_above(role) == role \in {"super_admin", "manager"}

\* The status require_super_admin raises; 0 when it passes.
require_super_admin_managerAllowed(role) ==
    IF role \notin {"super_admin", "manager"} THEN 403 ELSE 0

require_super_admin(role) == IF role /= "super_admin" THEN 403 ELSE 0

can_create_equipment_supportAllowed(role) ==
    role \in {"super_admin", "manager", "department_head", "support"}

can_create_equipment(role) == role \in {"super_admin", "manager", "department_head"}

\* The other checks of permissions.py; a require_* gives the status it
\* raises, 0 when it passes.
require_manager_or_above(role) ==
    IF role \notin {"super_admin", "manager"} THEN 403 ELSE 0

require_department_head_or_above(role) ==
    IF role \notin {"super_admin", "manager", "department_head"} THEN 403 ELSE 0

require_support_or_above(role) == IF role = "department_incharge" THEN 403 ELSE 0

is_department_head_or_above(role) == role \in {"super_admin", "manager", "department_head"}

is_support_or_above(role) == role /= "department_incharge"

can_delete_equipment(role) == role = "super_admin"

can_manage_users(role) == role = "super_admin"

can_manage_departments(role) == role = "super_admin"

can_view_departments(role) == role /= "department_incharge"

can_assign_tickets(role) == role \in {"super_admin", "manager"}

can_view_all_tickets_supportToo(role) == role \in {"super_admin", "manager", "support"}

can_view_all_tickets(role) == role \in {"super_admin", "manager"}

can_view_equipment(role) == role /= "department_incharge"

is_supervisor_or_above(role) == is_manager_or_above(role)

\* Every predicate of permissions.py by name: whether it grants `role`.
Capabilities ==
    {"require_super_admin", "require_manager_or_above", "require_department_head_or_above",
     "require_support_or_above", "is_manager_or_above", "is_department_head_or_above",
     "is_support_or_above", "can_resolve_or_close_ticket", "can_close_ticket",
     "can_update_equipment_status", "can_delete_equipment", "can_manage_users",
     "can_manage_departments", "can_view_departments", "can_assign_tickets",
     "can_view_all_tickets", "can_create_equipment", "can_view_equipment",
     "is_supervisor_or_above"}

Granted(capability, role) ==
    CASE capability = "require_super_admin" -> require_super_admin(role) = 0
      [] capability = "require_manager_or_above" -> require_manager_or_above(role) = 0
      [] capability = "require_department_head_or_above"
            -> require_department_head_or_above(role) = 0
      [] capability = "require_support_or_above" -> require_support_or_above(role) = 0
      [] capability = "is_manager_or_above" -> is_manager_or_above(role)
      [] capability = "is_department_head_or_above" -> is_department_head_or_above(role)
      [] capability = "is_support_or_above" -> is_support_or_above(role)
      [] capability = "can_resolve_or_close_ticket" -> can_resolve_or_close_ticket(role)
      [] capability = "can_close_ticket" -> can_close_ticket(role)
      [] capability = "can_update_equipment_status" -> can_update_equipment_status(role)
      [] capability = "can_delete_equipment" -> can_delete_equipment(role)
      [] capability = "can_manage_users" -> can_manage_users(role)
      [] capability = "can_manage_departments" -> can_manage_departments(role)
      [] capability = "can_view_departments" -> can_view_departments(role)
      [] capability = "can_assign_tickets" -> can_assign_tickets(role)
      [] capability = "can_view_all_tickets" -> can_view_all_tickets(role)
      [] capability = "can_create_equipment" -> can_create_equipment(role)
      [] capability = "can_view_equipment" -> can_view_equipment(role)
      [] capability = "is_supervisor_or_above" -> is_supervisor_or_above(role)

\* ------------------------------------------------------------------ helpers
Min(S) == CHOOSE x \in S : \A y \in S : x <= y

RECURSIVE InIdOrder(_)
InIdOrder(S) == IF S = {} THEN <<>> ELSE <<Min(S)>> \o InIdOrder(S \ {Min(S)})

\* str.replace('_', ' ').title() is text only; rows keep the type and target.
create_notification(user_id, notification_type, related_entity_type, related_entity_id) ==
    [user_id |-> user_id,
     notification_type |-> notification_type,
     related_entity_type |-> related_entity_type,
     related_entity_id |-> related_entity_id,
     is_read |-> FALSE,
     read_at |-> NoDate]

ActiveWithRole_actorIncluded(roles, excluded) ==
    {u \in DOMAIN users : users[u].role \in roles /\ users[u].is_active}

ActiveWithRole(roles, excluded) ==
    {u \in DOMAIN users : users[u].role \in roles /\ users[u].is_active /\ u /= excluded}

\* uuid primary key of the next ticket row
NewTicketId == Min(TicketIds \ DOMAIN tickets)

NewEquipmentId == Min(EquipIds \ DOMAIN equipment)

NewUserId == Min(RegisteredUserIds \ DOMAIN users)

NewDepartmentId == Min(CreatedDeptIds \ DOMAIN departments)

\* ----------------------------------------------------- notification service
notify_ticket_created_noDepartmentHead(ticket_id, creator) ==
    LET staff == InIdOrder(ActiveWithRole({"manager", "support"}, creator))
    IN  [i \in 1..Len(staff) |-> create_notification(staff[i], "ticket_created", "ticket", ticket_id)]

notify_ticket_created(ticket_id, creator) ==
    LET staff == InIdOrder(ActiveWithRole({"manager", "support", "department_head"}, creator))
    IN  [i \in 1..Len(staff) |-> create_notification(staff[i], "ticket_created", "ticket", ticket_id)]

notify_ticket_assigned_selfIncluded(ticket_id, assigned_user, assigner) ==
    <<create_notification(assigned_user, "ticket_assigned", "ticket", ticket_id)>>

notify_ticket_assigned(ticket_id, assigned_user, assigner) ==
    IF assigned_user = assigner
    THEN <<>>
    ELSE <<create_notification(assigned_user, "ticket_assigned", "ticket", ticket_id)>>

notify_ticket_status_changed_managersAlways(ticket_id, ticket, old_status, new_status, updater) ==
    LET row(u) == create_notification(u, "ticket_status_changed", "ticket", ticket_id)
        people == {ticket.reported_by_user_id, ticket.assigned_to_user_id} \ {None, updater}
        managers == ActiveWithRole({"manager"}, updater) \ people
        all == InIdOrder(people \cup managers)
    IN  [i \in 1..Len(all) |-> row(all[i])]

notify_ticket_status_changed(ticket_id, ticket, old_status, new_status, updater) ==
    LET row(u) == create_notification(u, "ticket_status_changed", "ticket", ticket_id)
        toReporter ==
            IF ticket.reported_by_user_id /= None /\ ticket.reported_by_user_id /= updater
            THEN <<row(ticket.reported_by_user_id)>> ELSE <<>>
        toAssignee ==
            IF ticket.assigned_to_user_id /= None /\ ticket.assigned_to_user_id /= updater
            THEN <<row(ticket.assigned_to_user_id)>> ELSE <<>>
        managers ==
            InIdOrder({m \in ActiveWithRole({"manager"}, updater) :
                         m \notin {ticket.reported_by_user_id, ticket.assigned_to_user_id}})
        toManagers ==
            IF new_status \in {"resolved", "closed"}
            THEN [i \in 1..Len(managers) |-> row(managers[i])] ELSE <<>>
    IN  toReporter \o toAssignee \o toManagers

notify_equipment_status_changed_staffOnly(equipment_id, eq, old_status, new_status, updater) ==
    LET staff == InIdOrder(ActiveWithRole({"manager", "support", "department_head"}, updater))
    IN  [i \in 1..Len(staff) |->
            create_notification(staff[i], "equipment_status_changed", "equipment", equipment_id)]

notify_equipment_status_changed(equipment_id, eq, old_status, new_status, updater) ==
    LET row(u) == create_notification(u, "equipment_status_changed", "equipment", equipment_id)
        dept_users ==
            IF eq.department_id /= None
            THEN InIdOrder({u \in DOMAIN users : /\ users[u].department_id = eq.department_id
                                                 /\ users[u].is_active
                                                 /\ u /= updater})
            ELSE <<>>
        staff ==
            InIdOrder({u \in ActiveWithRole({"manager", "support", "department_head"}, updater) :
                         eq.department_id = None \/ users[u].department_id /= eq.department_id})
    IN  [i \in 1..Len(dept_users) |-> row(dept_users[i])] \o [i \in 1..Len(staff) |-> row(staff[i])]

\* timedelta(days=n) on the model's clock
timedelta_days(n) == n * TicksPerDay

\* timedelta.days: whole days, rounded towards minus infinity
timedelta_in_days(ticks) == ticks \div TicksPerDay

notify_maintenance_due_withinSixDays(schedule_id, schedule, now) ==
    LET days_until == timedelta_in_days(schedule.next_maintenance_date - now)
        row(type) == create_notification(schedule.assigned_to_user_id, type,
                                         "maintenance", schedule_id)
    IN  IF schedule.assigned_to_user_id = None \/ schedule.equipment_id \notin DOMAIN equipment
        THEN <<>>
        ELSE IF days_until < 0 THEN <<row("maintenance_overdue")>>
        ELSE IF days_until < 7 THEN <<row("maintenance_due")>>
        ELSE <<>>

notify_maintenance_due(schedule_id, schedule, now) ==
    LET days_until == timedelta_in_days(schedule.next_maintenance_date - now)
        row(type) == create_notification(schedule.assigned_to_user_id, type,
                                         "maintenance", schedule_id)
    IN  IF schedule.assigned_to_user_id = None
        THEN <<>>
        ELSE IF schedule.equipment_id \notin DOMAIN equipment
        THEN <<>>
        ELSE IF days_until < 0 THEN <<row("maintenance_overdue")>>
        ELSE IF days_until <= 7 THEN <<row("maintenance_due")>>
        ELSE <<>>

notify_maintenance_completed(schedule_id, schedule, completer) ==
    LET managers == InIdOrder(ActiveWithRole({"manager"}, completer))
    IN  IF schedule.equipment_id \notin DOMAIN equipment
        THEN <<>>
        ELSE [i \in 1..Len(managers) |->
                create_notification(managers[i], "maintenance_completed", "maintenance", schedule_id)]

\* ------------------------------------------------------------ request inputs

TerminalStatuses == {"resolved", "closed"}

TicketFields == {"status", "assigned_to_user_id", "priority", "title", "description"}

\* TicketUpdate with exclude_unset: the dict of the fields the request carries.
\* The text fields (priority, title, description) are sent together.
TicketUpdateDict(s, a, o) ==
    LET all == [status |-> s, assigned_to_user_id |-> a,
                priority |-> "high", title |-> "T1", description |-> "D1"]
        keys == {k \in TicketFields :
                    \/ k = "status" /\ s /= "unset"
                    \/ k = "assigned_to_user_id" /\ a /= Unset
                    \/ k \in {"priority", "title", "description"} /\ o}
    IN  [k \in keys |-> all[k]]

TicketUpdatePayloads(text) ==
    {TicketUpdateDict(s, a, o) : s \in TicketStatus \cup {"unset"},
                                 a \in UserIds \cup {None, Unset},
                                 o \in text}

\* One notification event: the rows one notify_* call added, and its actor.
Event(kind, actor, rows) == [kind |-> kind, actor |-> actor, rows |-> rows]

RECURSIVE AllRows(_)
AllRows(events) == IF events = <<>> THEN <<>> ELSE Head(events).rows \o AllRows(Tail(events))

\* What a request leaves behind: its status code, the tables as committed and
\* the notification events it dispatched.
Outcome(code, tk, eq, sc, events) ==
    [code |-> code, tickets |-> tk, equipment |-> eq, schedules |-> sc,
     users |-> users, departments |-> departments, suppliers |-> suppliers,
     notifications |-> notifications \o AllRows(events), events |-> events]

\* raise HTTPException(...): nothing of the request is committed.
Rejected(code) == Outcome(code, tickets, equipment, schedules, <<>>)

\* db.delete of the rows `ids` of a table.
Without(table, ids) == [k \in DOMAIN table \ ids |-> table[k]]

\* ON DELETE SET NULL of column `field` for the rows that refer to `id`.
SetNull(table, field, id) ==
    [k \in DOMAIN table |->
        IF table[k][field] = id THEN [table[k] EXCEPT ![field] = None] ELSE table[k]]

\* ON DELETE CASCADE of the notifications of a user.
RECURSIVE NotificationsNotOf(_, _)
NotificationsNotOf(rows, user_id) ==
    IF rows = <<>> THEN <<>>
    ELSE (IF Head(rows).user_id = user_id THEN <<>> ELSE <<Head(rows)>>)
         \o NotificationsNotOf(Tail(rows), user_id)

\* ------------------------------------------------------------ ticket router
\* The two permission checks of update_ticket; 0 when both pass.
update_ticket_permission(role, update_data) ==
    IF /\ "status" \in DOMAIN update_data
       /\ update_data["status"] \in {"resolved", "closed"}
       /\ ~can_resolve_or_close_ticket(role)
    THEN 403
    ELSE IF /\ "status" \in DOMAIN update_data
            /\ update_data["status"] = "closed"
            /\ ~can_close_ticket(role)
         THEN 403
         ELSE 0

\* for field, value in update_data.items(): setattr(ticket, field, value)
apply_updates(ticket, update_data) ==
    [f \in DOMAIN ticket |-> IF f \in DOMAIN update_data THEN update_data[f] ELSE ticket[f]]

repair_increment_due_closedOnly(old_status, new_status) ==
    old_status /= new_status /\ new_status = "closed"

repair_increment_due(old_status, new_status) ==
    old_status /= new_status /\ new_status \in {"resolved", "closed"}

\* Lines 195-224: apply the fields, count the repair, commit, notify.
update_ticket_apply(current_user, ticket_id, update_data) ==
    LET ticket == tickets[ticket_id]
        old_status == ticket.status
        old_assigned_to == ticket.assigned_to_user_id
        updated == apply_updates(ticket, update_data)
        new_status == updated.status
        bump == /\ repair_increment_due(old_status, new_status)
                /\ updated.equipment_id /= None
                /\ updated.equipment_id \in DOMAIN equipment
        statusEvents ==
            IF old_status /= updated.status
            THEN <<Event("ticket_status_changed", current_user,
                         notify_ticket_status_changed(ticket_id, updated, old_status,
                                                      updated.status, current_user))>>
            ELSE <<>>
        assignEvents ==
            IF /\ "assigned_to_user_id" \in DOMAIN update_data
               /\ updated.assigned_to_user_id /= None
               /\ old_assigned_to /= updated.assigned_to_user_id
               /\ updated.assigned_to_user_id \in DOMAIN users
            THEN <<Event("ticket_assigned", current_user,
                         notify_ticket_assigned(ticket_id, updated.assigned_to_user_id,
                                                current_user))>>
            ELSE <<>>
    IN  Outcome(200,
                [tickets EXCEPT ![ticket_id] = updated],
                IF bump
                THEN [equipment EXCEPT ![updated.equipment_id].repair_count = @ + 1]
                ELSE equipment,
                schedules,
                statusEvents \o assignEvents)

update_ticket_commitBeforeCheck(current_user, ticket_id, payload) ==
    IF ticket_id \notin DOMAIN tickets
    THEN Rejected(404)
    ELSE IF update_ticket_permission(users[current_user].role, payload) /= 0
    THEN [update_ticket_apply(current_user, ticket_id, payload) EXCEPT
            !.code = update_ticket_permission(users[current_user].role, payload)]
    ELSE update_ticket_apply(current_user, ticket_id, payload)

update_ticket(current_user, ticket_id, payload) ==
    IF ticket_id \notin DOMAIN tickets
    THEN Rejected(404)
    ELSE IF update_ticket_permission(users[current_user].role, payload) /= 0
    THEN Rejected(update_ticket_permission(users[current_user].role, payload))
    ELSE update_ticket_apply(current_user, ticket_id, payload)

create_ticket_inchargeRefused(current_user, ticket_id, payload) ==
    IF users[current_user].role = "department_incharge"
    THEN Rejected(403)
    ELSE IF payload.equipment_id \notin DOMAIN equipment
    THEN Rejected(404)
    ELSE
    LET eq == equipment[payload.equipment_id]
        ticket == [equipment_id |-> payload.equipment_id,
                   title |-> payload.title,
                   description |-> payload.description,
                   priority |-> payload.priority,
                   reported_by_user_id |-> current_user,
                   assigned_to_user_id |-> None,
                   from_department |-> IF eq.department_id /= None
                                       THEN departments[eq.department_id].name
                                       ELSE "Unknown",
                   status |-> "open"]
    IN  Outcome(200, (ticket_id :> ticket) @@ tickets, equipment, schedules,
                <<Event("ticket_created", current_user,
                        notify_ticket_created(ticket_id, current_user))>>)

create_ticket(current_user, ticket_id, payload) ==
    IF payload.equipment_id \notin DOMAIN equipment
    THEN Rejected(404)
    ELSE
    LET eq == equipment[payload.equipment_id]
        ticket == [equipment_id |-> payload.equipment_id,
                   title |-> payload.title,
                   description |-> payload.description,
                   priority |-> payload.priority,
                   reported_by_user_id |-> current_user,
                   assigned_to_user_id |-> None,
                   from_department |-> IF eq.department_id /= None
                                       THEN departments[eq.department_id].name
                                       ELSE "Unknown",
                   status |-> "open"]
    IN  Outcome(200, (ticket_id :> ticket) @@ tickets, equipment, schedules,
                <<Event("ticket_created", current_user,
                        notify_ticket_created(ticket_id, current_user))>>)

TicketCreatePayloads ==
    {[equipment_id |-> e, title |-> "T0", description |-> "D0", priority |-> "medium"] :
        e \in EquipIdInputs}

\* Lines 33-57: the role filter, then the filters of the query string; an
\* empty parameter ("" or None) does not filter. The page holds every row
\* that matches.
list_tickets(current_user, status, assigned_to_user_id) ==
    LET role == users[current_user].role
    IN  [code |-> 200,
         body |-> {t \in DOMAIN tickets :
                     /\ role = "support" => tickets[t].assigned_to_user_id = current_user
                     /\ role = "department_incharge"
                           => tickets[t].reported_by_user_id = current_user
                     /\ status = "" \/ tickets[t].status = status
                     /\ \/ assigned_to_user_id = None
                        \/ tickets[t].assigned_to_user_id = assigned_to_user_id}]

get_ticket(current_user, ticket_id) ==
    IF ticket_id \notin DOMAIN tickets
    THEN [code |-> 404, body |-> {}]
    ELSE [code |-> 200, body |-> {ticket_id}]

\* --------------------------------------------------------- equipment router
update_equipment_status_countsRepair(current_user, equipment_id, status) ==
    IF ~can_update_equipment_status(users[current_user].role)
    THEN Rejected(403)
    ELSE IF equipment_id \notin DOMAIN equipment
    THEN Rejected(404)
    ELSE
    LET old_status == equipment[equipment_id].status
        back == old_status /= "active" /\ status = "active"
        updated == [equipment[equipment_id] EXCEPT
                      !.status = status,
                      !.repair_count = IF back THEN @ + 1 ELSE @]
    IN  Outcome(200, tickets, [equipment EXCEPT ![equipment_id] = updated], schedules, <<>>)

update_equipment_status(current_user, equipment_id, status) ==
    IF ~can_update_equipment_status(users[current_user].role)
    THEN Rejected(403)
    ELSE IF equipment_id \notin DOMAIN equipment
    THEN Rejected(404)
    ELSE
    LET old_status == equipment[equipment_id].status
        updated == [equipment[equipment_id] EXCEPT !.status = status]
    IN  Outcome(200, tickets, [equipment EXCEPT ![equipment_id] = updated], schedules,
                IF old_status /= updated.status
                THEN <<Event("equipment_status_changed", current_user,
                             notify_equipment_status_changed(equipment_id, updated, old_status,
                                                             updated.status, current_user))>>
                ELSE <<>>)

\* EquipmentCreate: status and department of the new equipment.
EquipmentCreatePayloads ==
    [status : EquipmentStatus, department_id : DeptIds \cup {None}]

\* Equipment(**payload.dict()): the counters take their column defaults.
create_equipment(current_user, equipment_id, payload) ==
    IF ~can_create_equipment(users[current_user].role)
    THEN Rejected(403)
    ELSE
    LET row == [status |-> payload.status,
                department_id |-> payload.department_id,
                supplier_id |-> None,
                repair_count |-> 0,
                total_downtime_minutes |-> 0,
                last_downtime_start |-> NoDate,
                is_currently_down |-> FALSE]
    IN  Outcome(200, tickets, (equipment_id :> row) @@ equipment, schedules, <<>>)

\* The fields an equipment update request may carry: those of EquipmentBase
\* that the handlers read, each optional.
EquipmentFields == {"status", "department_id"}

EquipmentUpdateDict(s, d) ==
    LET all == [status |-> s, department_id |-> d]
        keys == {k \in EquipmentFields :
                    \/ k = "status" /\ s /= "unset"
                    \/ k = "department_id" /\ d /= Unset}
    IN  [k \in keys |-> all[k]]

EquipmentUpdatePayloads ==
    {EquipmentUpdateDict(s, d) : s \in EquipmentStatus \cup {"unset"},
                                 d \in DeptIds \cup {None, Unset}}

update_equipment(current_user, equipment_id, payload) ==
    IF ~can_create_equipment(users[current_user].role)
    THEN Rejected(403)
    ELSE IF equipment_id \notin DOMAIN equipment
    THEN Rejected(404)
    ELSE
    LET old_status == equipment[equipment_id].status
        updated == apply_updates(equipment[equipment_id], payload)
    IN  Outcome(200, tickets, [equipment EXCEPT ![equipment_id] = updated], schedules,
                IF "status" \in DOMAIN payload /\ old_status /= updated.status
                THEN <<Event("equipment_status_changed", current_user,
                             notify_equipment_status_changed(equipment_id, updated, old_status,
                                                             updated.status, current_user))>>
                ELSE <<>>)

\* What a read request answers: its status code and the rows it returns.
Response(code, body) == [code |-> code, body |-> body]

\* Query parameters that are empty ("" or None) do not filter. The page holds
\* every row that matches.
list_equipment(current_user, status, department_id) ==
    Response(200,
             {e \in DOMAIN equipment :
                 /\ status = "" \/ equipment[e].status = status
                 /\ department_id = None \/ equipment[e].department_id = department_id})

get_equipment(current_user, equipment_id) ==
    IF equipment_id \notin DOMAIN equipment
    THEN Response(404, {})
    ELSE Response(200, {equipment_id})

\* db.delete(equipment): the ORM deletes its tickets with it (cascade
\* all,delete-orphan), the database its maintenance schedules (ON DELETE
\* CASCADE).
delete_equipment(current_user, equipment_id) ==
    IF require_super_admin(users[current_user].role) /= 0
    THEN Rejected(require_super_admin(users[current_user].role))
    ELSE IF equipment_id \notin DOMAIN equipment
    THEN Rejected(404)
    ELSE Outcome(200,
                 Without(tickets, {t \in DOMAIN tickets : tickets[t].equipment_id = equipment_id}),
                 Without(equipment, {equipment_id}),
                 Without(schedules,
                         {s \in DOMAIN schedules : schedules[s].equipment_id = equipment_id}),
                 <<>>)

\* ------------------------------------------------------- maintenance router
next_due_fromPreviousDue(schedule, now) ==
    schedule.next_maintenance_date + timedelta_days(schedule.frequency_days)

\* now + timedelta(days=schedule.frequency_days)
next_due(schedule, now) == now + timedelta_days(schedule.frequency_days)

complete_maintenance(current_user, schedule_id, now) ==
    IF ~is_manager_or_above(users[current_user].role)
    THEN Rejected(403)
    ELSE IF schedule_id \notin DOMAIN schedules
    THEN Rejected(404)
    ELSE
    LET schedule == schedules[schedule_id]
        updated == [schedule EXCEPT
                      !.last_maintenance_date = now,
                      !.next_maintenance_date = next_due(schedule, now)]
    IN  Outcome(200, tickets, equipment, [schedules EXCEPT ![schedule_id] = updated],
                <<Event("maintenance_completed", current_user,
                        notify_maintenance_completed(schedule_id, updated, current_user))>>)

delete_maintenance_schedule(current_user, schedule_id) ==
    IF ~is_manager_or_above(users[current_user].role)
    THEN Rejected(403)
    ELSE IF schedule_id \notin DOMAIN schedules
    THEN Rejected(404)
    ELSE Outcome(200, tickets, equipment, Without(schedules, {schedule_id}), <<>>)

\* ------------------------------------------- departments, users, suppliers
list_departments(current_user) == Response(200, DOMAIN departments)

get_department(current_user, department_id) ==
    IF department_id \notin DOMAIN departments
    THEN Response(404, {})
    ELSE Response(200, {department_id})

delete_department(current_user, department_id) ==
    IF require_super_admin(users[current_user].role) /= 0
    THEN Rejected(require_super_admin(users[current_user].role))
    ELSE IF department_id \notin DOMAIN departments
    THEN Rejected(404)
    ELSE [Outcome(200, tickets, SetNull(equipment, "department_id", department_id),
                  schedules, <<>>)
            EXCEPT !.departments = Without(departments, {department_id}),
                   !.users = SetNull(users, "department_id", department_id)]

delete_user(current_user, user_id) ==
    IF require_super_admin(users[current_user].role) /= 0
    THEN Rejected(require_super_admin(users[current_user].role))
    ELSE IF current_user = user_id
    THEN Rejected(400)
    ELSE IF user_id \notin DOMAIN users
    THEN Rejected(404)
    ELSE [Outcome(200,
                  SetNull(SetNull(tickets, "reported_by_user_id", user_id),
                          "assigned_to_user_id", user_id),
                  equipment,
                  SetNull(schedules, "assigned_to_user_id", user_id),
                  <<>>)
            EXCEPT !.users = Without(users, {user_id}),
                   !.notifications = NotificationsNotOf(notifications, user_id)]

\* UserCreate: the email and the role of the new account.
UserCreatePayloads == [email : {"u3", "u4"}, role : UserRole]

\* POST /auth/register takes no current_user: the request needs no token.
register_user(user_id, payload) ==
    IF \E v \in DOMAIN users : users[v].email = payload.email
    THEN Rejected(400)
    ELSE
    LET user == [role |-> payload.role, is_active |-> TRUE, department_id |-> None,
                 email |-> payload.email]
    IN  [Outcome(201, tickets, equipment, schedules, <<>>)
            EXCEPT !.users = (user_id :> user) @@ users]

UserFields == {"email", "role", "is_active"}

\* UserUpdate: a field that is None is a field the request does not carry.
UserUpdateDict(e, r, a) ==
    LET all == [email |-> e, role |-> r, is_active |-> a = "true"]
        keys == {k \in UserFields :
                    \/ k = "email" /\ e /= "unset"
                    \/ k = "role" /\ r /= "unset"
                    \/ k = "is_active" /\ a /= "unset"}
    IN  [k \in keys |-> all[k]]

UserUpdatePayloads ==
    {UserUpdateDict(e, r, a) : e \in {"unset", "u2"},
                               r \in {"unset", "super_admin", "department_incharge"},
                               a \in {"unset", "true", "false"}}

update_user(current_user, user_id, payload) ==
    IF require_super_admin(users[current_user].role) /= 0
    THEN Rejected(require_super_admin(users[current_user].role))
    ELSE IF user_id \notin DOMAIN users
    THEN Rejected(404)
    ELSE IF /\ "email" \in DOMAIN payload
            /\ \E v \in DOMAIN users \ {user_id} : users[v].email = payload["email"]
    THEN Rejected(400)
    ELSE [Outcome(200, tickets, equipment, schedules, <<>>)
            EXCEPT !.users = [users EXCEPT ![user_id] = apply_updates(@, payload)]]

DepartmentCreatePayloads == [name : {"ICU", "ER"}]

create_department(current_user, department_id, payload) ==
    IF require_super_admin(users[current_user].role) /= 0
    THEN Rejected(require_super_admin(users[current_user].role))
    ELSE IF \E d \in DOMAIN departments : departments[d].name = payload.name
    THEN Rejected(400)
    ELSE [Outcome(200, tickets, equipment, schedules, <<>>)
            EXCEPT !.departments = (department_id :> [name |-> payload.name]) @@ departments]

\* The supplier router's delete handler (main.py does not register the router).
delete_supplier(current_user, supplier_id) ==
    IF ~can_create_equipment(users[current_user].role)
    THEN Rejected(403)
    ELSE IF supplier_id \notin DOMAIN suppliers
    THEN Rejected(404)
    ELSE IF \E e \in DOMAIN equipment : equipment[e].supplier_id = supplier_id
    THEN Rejected(400)
    ELSE [Outcome(200, tickets, equipment, schedules, <<>>)
            EXCEPT !.suppliers = Without(suppliers, {supplier_id})]

\* ------------------------------------------------------ notification router
\* (main.py does not register this router.) A notification is named by its
\* place in the table.
mark_notification_read_anyOwner(current_user, notification_id, now) ==
    IF notification_id \notin DOMAIN notifications
    THEN Rejected(404)
    ELSE IF notifications[notification_id].is_read
    THEN Outcome(200, tickets, equipment, schedules, <<>>)
    ELSE [Outcome(200, tickets, equipment, schedules, <<>>)
            EXCEPT !.notifications =
                     [notifications EXCEPT ![notification_id] =
                        [@ EXCEPT !.is_read = TRUE, !.read_at = now]]]

mark_notification_read(current_user, notification_id, now) ==
    IF \/ notification_id \notin DOMAIN notifications
       \/ notifications[notification_id].user_id /= current_user
    THEN Rejected(404)
    ELSE IF notifications[notification_id].is_read
    THEN Outcome(200, tickets, equipment, schedules, <<>>)
    ELSE [Outcome(200, tickets, equipment, schedules, <<>>)
            EXCEPT !.notifications =
                     [notifications EXCEPT ![notification_id] =
                        [@ EXCEPT !.is_read = TRUE, !.read_at = now]]]

mark_all_read(current_user, now) ==
    [Outcome(200, tickets, equipment, schedules, <<>>)
        EXCEPT !.notifications =
                 [i \in DOMAIN notifications |->
                    IF notifications[i].user_id = current_user /\ ~notifications[i].is_read
                    THEN [notifications[i] EXCEPT !.is_read = TRUE, !.read_at = now]
                    ELSE notifications[i]]]

delete_notification(current_user, notification_id) ==
    IF \/ notification_id \notin DOMAIN notifications
       \/ notifications[notification_id].user_id /= current_user
    THEN Rejected(404)
    ELSE [Outcome(200, tickets, equipment, schedules, <<>>)
            EXCEPT !.notifications =
                     SubSeq(notifications, 1, notification_id - 1)
                     \o SubSeq(notifications, notification_id + 1, Len(notifications))]

\* ----------------------------------------------------------------- requests
\* The requests a caller can make in this state, as <<route, id, input>>.
Requests ==
    LET created == IF TicketIds \ DOMAIN tickets = {} THEN {}
                   ELSE {<<"create_ticket", NewTicketId, p>> : p \in TicketCreatePayloads}
        updated == {<<"update_ticket", t, p>> :
                       t \in DOMAIN tickets, p \in TicketUpdatePayloads({FALSE})}
        switched == {<<"update_equipment_status", e, st>> :
                       e \in DOMAIN equipment, st \in EquipmentStatus}
        edited == {<<"update_equipment", e, p>> :
                       e \in DOMAIN equipment, p \in EquipmentUpdatePayloads}
        added == IF EquipIds \ DOMAIN equipment = {} THEN {}
                 ELSE {<<"create_equipment", NewEquipmentId, p>> : p \in EquipmentCreatePayloads}
        completed == {<<"complete_maintenance", s, now>> :
                       s \in DOMAIN schedules, now \in clock..MaxClock}
    IN  created \cup updated \cup switched \cup edited \cup added \cup completed

\* What one request of caller u leaves behind.
OutcomeOf(u, request) ==
    CASE request[1] = "create_ticket" -> create_ticket(u, request[2], request[3])
      [] request[1] = "update_ticket" -> update_ticket(u, request[2], request[3])
      [] request[1] = "update_equipment_status"
            -> update_equipment_status(u, request[2], request[3])
      [] request[1] = "update_equipment" -> update_equipment(u, request[2], request[3])
      [] request[1] = "create_equipment" -> create_equipment(u, request[2], request[3])
      [] request[1] = "complete_maintenance"
            -> complete_maintenance(u, request[2], request[3])

\* The notification events of one request of caller u.
EventsOf(u, request) == OutcomeOf(u, request).events

\* --------------------------------------------------------- requests in flight
\* A session with no request.
Idle == [pc |-> "idle"]

\* What a handler's own db.commit() persists together with the notification
\* rows: in this variant the rows of the first event go with the entity.
request_commit_rowsWithEntity(out) ==
    [tickets |-> out.tickets, equipment |-> out.equipment, schedules |-> out.schedules,
     notifications |-> IF out.events = <<>> THEN notifications
                       ELSE notifications \o Head(out.events).rows,
     pending |-> IF out.events = <<>> THEN <<>> ELSE Tail(out.events)]

\* What a handler's own db.commit() persists, and the notify_* calls that
\* follow it: db.commit(); db.refresh(...); notification_service.notify_*(...).
request_commit(out) ==
    [tickets |-> out.tickets, equipment |-> out.equipment, schedules |-> out.schedules,
     notifications |-> notifications,
     pending |-> out.events]

\* Session s with the notify_* calls `pending` still to make.
Notifying(pending) ==
    IF pending = <<>> THEN Idle ELSE [pc |-> "notifying", pending |-> pending]

\* update_ticket statement by statement. Each query reads the rows as last
\* committed: sessions share no snapshot (SQLite through pysqlite, and READ
\* COMMITTED elsewhere).
\* Lines 165-197: the ticket is loaded, the permissions are checked and the
\* fields of the request are set on the loaded object.
loaded_ticket(current_user, ticket_id, update_data) ==
    [pc |-> "applied",
     current_user |-> current_user,
     ticket_id |-> ticket_id,
     update_data |-> update_data,
     loaded |-> tickets[ticket_id],
     ticket |-> apply_updates(tickets[ticket_id], update_data),
     repair_count |-> Unset]

\* Lines 199-205: equipment.repair_count += 1 on the equipment row as read
\* now; the sum is a value of the session until it is flushed.
counted_repair(r) ==
    IF /\ repair_increment_due(r.loaded.status, r.ticket.status)
       /\ r.ticket.equipment_id /= None
       /\ r.ticket.equipment_id \in DOMAIN equipment
    THEN [r EXCEPT !.pc = "counted",
                   !.repair_count = equipment[r.ticket.equipment_id].repair_count + 1]
    ELSE [r EXCEPT !.pc = "counted"]

\* A flush that leaves the counted repair for a later commit.
flush_ticketOnly(r) ==
    [tickets |-> [tickets EXCEPT ![r.ticket_id] =
                    [f \in DOMAIN @ |-> IF r.ticket[f] /= r.loaded[f] THEN r.ticket[f] ELSE @[f]]],
     equipment |-> equipment]

\* Line 207, db.commit(): one transaction with an UPDATE of the ticket
\* columns that were set to a new value and an UPDATE of repair_count to the
\* value the session holds.
flush(r) ==
    [tickets |-> [tickets EXCEPT ![r.ticket_id] =
                    [f \in DOMAIN @ |-> IF r.ticket[f] /= r.loaded[f] THEN r.ticket[f] ELSE @[f]]],
     equipment |-> IF r.repair_count = Unset THEN equipment
                   ELSE [equipment EXCEPT ![r.ticket.equipment_id].repair_count =
                                              r.repair_count]]

\* Lines 208-222: the notify_* calls update_ticket makes for the refreshed
\* ticket.
ticket_events(r, ticket) ==
    (IF r.loaded.status /= ticket.status
     THEN <<Event("ticket_status_changed", r.current_user,
                  notify_ticket_status_changed(r.ticket_id, ticket, r.loaded.status,
                                               ticket.status, r.current_user))>>
     ELSE <<>>)
    \o (IF /\ "assigned_to_user_id" \in DOMAIN r.update_data
           /\ ticket.assigned_to_user_id /= None
           /\ r.loaded.assigned_to_user_id /= ticket.assigned_to_user_id
           /\ ticket.assigned_to_user_id \in DOMAIN users
        THEN <<Event("ticket_assigned", r.current_user,
                     notify_ticket_assigned(r.ticket_id, ticket.assigned_to_user_id,
                                            r.current_user))>>
        ELSE <<>>)

\* ------------------------------------------------------------------ actions
\* The tables after a request are the tables its handler committed.
Commit(out) ==
    /\ Len(out.notifications) <= MaxNotifs
    /\ \A e \in DOMAIN out.equipment : out.equipment[e].repair_count <= MaxRepair
    /\ tickets' = out.tickets
    /\ equipment' = out.equipment
    /\ schedules' = out.schedules
    /\ notifications' = out.notifications
    /\ users' = out.users
    /\ departments' = out.departments
    /\ suppliers' = out.suppliers
    /\ UNCHANGED sessions

CreateTicket(current_user, payload) ==
    /\ TicketIds \ DOMAIN tickets /= {}
    /\ Commit(create_ticket(current_user, NewTicketId, payload))
    /\ UNCHANGED clock

UpdateTicket(current_user, ticket_id, payload) ==
    /\ Commit(update_ticket(current_user, ticket_id, payload))
    /\ UNCHANGED clock

UpdateEquipmentStatus(current_user, equipment_id, status) ==
    /\ Commit(update_equipment_status(current_user, equipment_id, status))
    /\ UNCHANGED clock

CreateEquipment(current_user, payload) ==
    /\ EquipIds \ DOMAIN equipment /= {}
    /\ Commit(create_equipment(current_user, NewEquipmentId, payload))
    /\ UNCHANGED clock

UpdateEquipment(current_user, equipment_id, payload) ==
    /\ Commit(update_equipment(current_user, equipment_id, payload))
    /\ UNCHANGED clock

\* datetime.utcnow() reads a clock that never runs backwards.
CompleteMaintenance(current_user, schedule_id, now) ==
    /\ Commit(complete_maintenance(current_user, schedule_id, now))
    /\ clock' = now

DeleteEquipment(current_user, equipment_id) ==
    /\ Commit(delete_equipment(current_user, equipment_id))
    /\ UNCHANGED clock

DeleteMaintenanceSchedule(current_user, schedule_id) ==
    /\ Commit(delete_maintenance_schedule(current_user, schedule_id))
    /\ UNCHANGED clock

DeleteDepartment(current_user, department_id) ==
    /\ Commit(delete_department(current_user, department_id))
    /\ UNCHANGED clock

DeleteUser(current_user, user_id) ==
    /\ Commit(delete_user(current_user, user_id))
    /\ UNCHANGED clock

RegisterUser(payload) ==
    /\ RegisteredUserIds \ DOMAIN users /= {}
    /\ Commit(register_user(NewUserId, payload))
    /\ UNCHANGED clock

UpdateUser(current_user, user_id, payload) ==
    /\ Commit(update_user(current_user, user_id, payload))
    /\ UNCHANGED clock

CreateDepartment(current_user, payload) ==
    /\ CreatedDeptIds \ DOMAIN departments /= {}
    /\ Commit(create_department(current_user, NewDepartmentId, payload))
    /\ UNCHANGED clock

\* A request that is not refused, up to and including its db.commit().
HandleRequest(s, current_user, request) ==
    LET out == OutcomeOf(current_user, request)
        committed == request_commit(out)
    IN  /\ sessions[s] = Idle
        /\ out.code = 200
        /\ \A e \in DOMAIN committed.equipment :
              committed.equipment[e].repair_count <= MaxRepair
        /\ Len(committed.notifications) <= MaxNotifs
        /\ tickets' = committed.tickets
        /\ equipment' = committed.equipment
        /\ schedules' = committed.schedules
        /\ notifications' = committed.notifications
        /\ sessions' = [sessions EXCEPT ![s] = Notifying(committed.pending)]
        /\ clock' = IF request[1] = "complete_maintenance" THEN request[3] ELSE clock
        /\ UNCHANGED <<users, departments, suppliers>>

\* One notify_* call of the request: its rows are added and committed.
DispatchNotification(s) ==
    /\ sessions[s].pc = "notifying"
    /\ notifications' = notifications \o Head(sessions[s].pending).rows
    /\ Len(notifications') <= MaxNotifs
    /\ sessions' = [sessions EXCEPT ![s] = Notifying(Tail(sessions[s].pending))]
    /\ UNCHANGED <<users, departments, suppliers, equipment, tickets, schedules, clock>>

\* The worker dies, or a notify_* call raises: what the session has not
\* committed is gone.
Crash(s) ==
    /\ sessions[s] /= Idle
    /\ sessions' = [sessions EXCEPT ![s] = Idle]
    /\ UNCHANGED <<users, departments, suppliers, equipment, tickets, schedules,
                   notifications, clock>>

\* update_ticket, lines 165-197, for a request that is not refused.
LoadTicket(s, current_user, ticket_id, update_data) ==
    /\ sessions[s] = Idle
    /\ ticket_id \in DOMAIN tickets
    /\ update_ticket_permission(users[current_user].role, update_data) = 0
    /\ sessions' = [sessions EXCEPT ![s] = loaded_ticket(current_user, ticket_id, update_data)]
    /\ UNCHANGED <<users, departments, suppliers, equipment, tickets, schedules,
                   notifications, clock>>

\* update_ticket, lines 199-205.
CountRepair(s) ==
    /\ sessions[s].pc = "applied"
    /\ sessions' = [sessions EXCEPT ![s] = counted_repair(@)]
    /\ UNCHANGED <<users, departments, suppliers, equipment, tickets, schedules,
                   notifications, clock>>

\* update_ticket, lines 207-208: the commit, and the refresh of the ticket.
CommitTicket(s) ==
    LET r == sessions[s]
        written == flush(r)
    IN  /\ r.pc = "counted"
        /\ \A e \in DOMAIN written.equipment : written.equipment[e].repair_count <= MaxRepair
        /\ tickets' = written.tickets
        /\ equipment' = written.equipment
        /\ sessions' = [sessions EXCEPT ![s] =
                          Notifying(ticket_events(r, written.tickets[r.ticket_id]))]
        /\ UNCHANGED <<users, departments, suppliers, schedules, notifications, clock>>

MarkNotificationRead(current_user, notification_id, now) ==
    /\ Commit(mark_notification_read(current_user, notification_id, now))
    /\ clock' = now

MarkAllRead(current_user, now) ==
    /\ Commit(mark_all_read(current_user, now))
    /\ clock' = now

DeleteNotification(current_user, notification_id) ==
    /\ Commit(delete_notification(current_user, notification_id))
    /\ UNCHANGED clock

\* notify_maintenance_due(db, schedule) called at time `now`.
NotifyMaintenanceDue(schedule_id, now) ==
    /\ notifications' = notifications \o notify_maintenance_due(schedule_id,
                                                               schedules[schedule_id], now)
    /\ Len(notifications') <= MaxNotifs
    /\ clock' = now
    /\ UNCHANGED <<users, departments, suppliers, equipment, tickets, schedules, sessions>>

\* ------------------------------------------------------------ specification
\* User directories: user 1 of any of `roles`, a manager who is active or not
\* and a support user outside the department.
Directories(roles, actives) ==
    {<<[role |-> r, is_active |-> TRUE, department_id |-> 1, email |-> "u1"],
       [role |-> "manager", is_active |-> a, department_id |-> 1, email |-> "u2"],
       [role |-> "support", is_active |-> TRUE, department_id |-> None, email |-> "u3"]>> :
        r \in roles, a \in actives}

Schedules(frequencies, dues) ==
    [SchedIds -> [equipment_id : SeedEquipIds, frequency_days : frequencies,
                  last_maintenance_date : {NoDate}, next_maintenance_date : dues,
                  assigned_to_user_id : {None}]]

\* Schedules as notify_maintenance_due may be handed them: with or without an
\* assigned user, the equipment row present or gone.
AssignedSchedules(dues) ==
    [SchedIds -> [equipment_id : EquipIdInputs, frequency_days : {1},
                  last_maintenance_date : {NoDate}, next_maintenance_date : dues,
                  assigned_to_user_id : {None, 3}]]

\* Equipment rows as the tables hold them before any request: in service, never
\* repaired, never down.
EquipmentRows(department_ids, supplier_ids) ==
    [SeedEquipIds -> [status : {"active"}, department_id : department_ids,
                      supplier_id : supplier_ids,
                      repair_count : {0}, total_downtime_minutes : {0},
                      last_downtime_start : {NoDate},
                      is_currently_down : {FALSE}]]

InitTables(directories, equipment_rows, schedule_rows) ==
    /\ users \in directories
    /\ departments = [d \in DeptIds |-> [name |-> "ICU"]]
    /\ suppliers = [s \in SupplierIds |-> [name |-> "S1"]]
    /\ equipment \in equipment_rows
    /\ tickets = <<>>
    /\ schedules \in schedule_rows
    /\ notifications = <<>>
    /\ clock = 0
    /\ sessions = [s \in SessionIds |-> Idle]

InitRows(directories, equipment_departments, schedule_rows) ==
    InitTables(directories, EquipmentRows(equipment_departments, {None}), schedule_rows)

\* The caller of a request is a user with a row.
CreateTicketStep == \E u \in DOMAIN users, p \in TicketCreatePayloads : CreateTicket(u, p)

\* A ticket id with no row is any id before the ticket is created.
UpdateTicketStep(text) ==
    \E u \in DOMAIN users, t \in TicketIds, p \in TicketUpdatePayloads(text) : UpdateTicket(u, t, p)

UpdateEquipmentStatusStep ==
    \E u \in DOMAIN users, e \in EquipIdInputs, s \in EquipmentStatus : UpdateEquipmentStatus(u, e, s)

CreateEquipmentStep ==
    \E u \in DOMAIN users, p \in EquipmentCreatePayloads : CreateEquipment(u, p)

UpdateEquipmentStep ==
    \E u \in DOMAIN users, e \in EquipIdInputs, p \in EquipmentUpdatePayloads : UpdateEquipment(u, e, p)

\* A completion at any time from now to `latest`.
CompleteMaintenanceStep(latest) ==
    \E u \in DOMAIN users, s \in SchedIdInputs, now \in clock..latest : CompleteMaintenance(u, s, now)

\* All routers together at one instant; ticket updates carry status and
\* assignee only.
Init == InitRows(Directories({"manager"}, BOOLEAN), {1, None}, Schedules({1}, {0}))

Next ==
    \/ CreateTicketStep
    \/ UpdateTicketStep({FALSE})
    \/ UpdateEquipmentStatusStep
    \/ CompleteMaintenanceStep(clock)

Spec == Init /\ [][Next]_vars

\* The ticket router under every caller role; ticket updates carry status and
\* assignee only.
InitTicket == InitRows(Directories(UserRole, BOOLEAN), {1}, Schedules({1}, {0}))

NextTicket ==
    \/ CreateTicketStep
    \/ UpdateTicketStep({FALSE})

SpecTicket == InitTicket /\ [][NextTicket]_vars

\* The ticket router under every caller role, every update carrying the text
\* fields too.
InitTicketText == InitRows(Directories(UserRole, {TRUE}), {1}, Schedules({1}, {0}))

NextTicketText ==
    \/ CreateTicketStep
    \/ UpdateTicketStep({TRUE})

SpecTicketText == InitTicketText /\ [][NextTicketText]_vars

\* The equipment router and the creation of tickets under every caller role,
\* for equipment with and without a department.
InitEquipment == InitRows(Directories(UserRole, BOOLEAN), {1, None}, Schedules({1}, {0}))

NextEquipment ==
    \/ CreateTicketStep
    \/ CreateEquipmentStep
    \/ UpdateEquipmentStatusStep
    \/ UpdateEquipmentStep

SpecEquipment == InitEquipment /\ [][NextEquipment]_vars

DeleteEquipmentStep ==
    \E u \in DOMAIN users, e \in EquipIdInputs : DeleteEquipment(u, e)

DeleteMaintenanceScheduleStep ==
    \E u \in DOMAIN users, s \in SchedIdInputs : DeleteMaintenanceSchedule(u, s)

\* An id whose row has been deleted is an id with no row.
DeleteDepartmentStep ==
    \E u \in DOMAIN users, d \in DeptIds : DeleteDepartment(u, d)

DeleteUserStep ==
    \E u \in DOMAIN users, v \in UserIds : DeleteUser(u, v)

\* The deleting requests of the routers the application registers, with
\* tickets being created, under every caller role.
InitAdmin ==
    InitTables(Directories(UserRole, BOOLEAN), EquipmentRows({1, None}, {None, 1}),
               Schedules({1}, {0}))

NextAdmin ==
    \/ CreateTicketStep
    \/ DeleteEquipmentStep
    \/ DeleteMaintenanceScheduleStep
    \/ DeleteDepartmentStep
    \/ DeleteUserStep

SpecAdmin == InitAdmin /\ [][NextAdmin]_vars

\* notify_maintenance_due over due dates from the past to more than a week
\* ahead, to the tick.
InitDue ==
    InitRows(Directories({"manager"}, BOOLEAN), {1},
             AssignedSchedules({0 - 1, 0, timedelta_days(1) - 1, timedelta_days(7),
                                timedelta_days(8) - 1, timedelta_days(8),
                                timedelta_days(8) + 1}))

NextDue == \E s \in DOMAIN schedules, now \in clock..MaxClock : NotifyMaintenanceDue(s, now)

SpecDue == InitDue /\ [][NextDue]_vars

\* The maintenance router over schedules that are due, overdue or far off.
InitMaintenance ==
    InitRows(Directories({"super_admin", "manager", "support"}, BOOLEAN), {1},
             Schedules({0, 1, 2}, {timedelta_days(-1), 0, timedelta_days(3)}))

NextMaintenance == CompleteMaintenanceStep(MaxClock)

SpecMaintenance == InitMaintenance /\ [][NextMaintenance]_vars

RegisterUserStep == \E p \in UserCreatePayloads : RegisterUser(p)

UpdateUserStep ==
    \E u \in DOMAIN users, v \in UserIds \cup RegisteredUserIds, p \in UserUpdatePayloads :
        UpdateUser(u, v, p)

CreateDepartmentStep ==
    \E u \in DOMAIN users, p \in DepartmentCreatePayloads : CreateDepartment(u, p)

\* The management of users and departments, user 1 of any role.
InitUsers == InitRows(Directories(UserRole, {TRUE}), {1}, Schedules({1}, {0}))

NextUsers ==
    \/ RegisterUserStep
    \/ UpdateUserStep
    \/ CreateDepartmentStep

SpecUsers == InitUsers /\ [][NextUsers]_vars

\* Requests to the five handlers that notify: a ticket is created, resolved
\* and assigned in one update or reopened, an equipment changes status through
\* either route, a maintenance is completed.
NotifyingRequests ==
    {request \in Requests :
        \/ request[1] \in {"create_ticket", "complete_maintenance"}
        \/ /\ request[1] = "update_ticket"
           /\ request[3] \in {[status |-> "resolved", assigned_to_user_id |-> 3],
                               [status |-> "open"]}
        \/ /\ request[1] = "update_equipment_status"
           /\ request[3] \in {"out_of_service", "active"}
        \/ /\ request[1] = "update_equipment"
           /\ request[3] = [status |-> "retired"]}

\* One worker: a request is handled when the one before it has returned or
\* died.
WorkerIds == {1}

HandleRequestStep ==
    \E s \in WorkerIds, u \in DOMAIN users, request \in NotifyingRequests :
        HandleRequest(s, u, request)

DispatchNotificationStep == \E s \in SessionIds : DispatchNotification(s)

CrashStep == \E s \in SessionIds : Crash(s)

\* Every notifying handler split at its commits: the commit of the entity,
\* then one commit per notify_* call, a crash possible in between.
InitDispatch == InitRows(Directories({"manager"}, {TRUE}), {1}, Schedules({1}, {0}))

NextDispatch ==
    \/ HandleRequestStep
    \/ DispatchNotificationStep
    \/ CrashStep

SpecDispatch == InitDispatch /\ [][NextDispatch]_vars

\* Two tickets of the same equipment, as create_ticket left them.
OpenTickets(ticket_ids) ==
    [t \in ticket_ids |->
        [equipment_id |-> 1, title |-> "T0", description |-> "D0", priority |-> "medium",
         reported_by_user_id |-> 3, assigned_to_user_id |-> None,
         from_department |-> "ICU", status |-> "open"]]

\* The status changes two concurrent requests ask for: a ticket is resolved
\* or closed.
StatusPayloads ==
    {p \in TicketUpdatePayloads({FALSE}) :
        DOMAIN p = {"status"} /\ p["status"] \in {"resolved", "closed"}}

\* Session s serves user s, a manager.
LoadTicketStep ==
    \E s \in SessionIds \cap DOMAIN users, t \in DOMAIN tickets, p \in StatusPayloads :
        LoadTicket(s, s, t, p)

CountRepairStep == \E s \in SessionIds : CountRepair(s)

CommitTicketStep == \E s \in SessionIds : CommitTicket(s)

\* Two update_ticket requests in flight at once, statement by statement.
InitSession ==
    /\ users \in Directories({"manager"}, {TRUE})
    /\ departments = [d \in DeptIds |-> [name |-> "ICU"]]
    /\ suppliers = [s \in SupplierIds |-> [name |-> "S1"]]
    /\ equipment \in EquipmentRows({1}, {None})
    /\ tickets = OpenTickets({1, 2})
    /\ schedules \in Schedules({1}, {0})
    /\ notifications = <<>>
    /\ clock = 0
    /\ sessions = [s \in SessionIds |-> Idle]

NextSession ==
    \/ LoadTicketStep
    \/ CountRepairStep
    \/ CommitTicketStep
    \/ DispatchNotificationStep
    \/ CrashStep

SpecSession == InitSession /\ [][NextSession]_vars

\* Notification ids a request may name: the rows there are and one more.
NotificationIdInputs == 1..(Len(notifications) + 1)

MarkNotificationReadStep ==
    \E u \in DOMAIN users, n \in NotificationIdInputs, now \in clock..MaxClock :
        MarkNotificationRead(u, n, now)

MarkAllReadStep == \E u \in DOMAIN users, now \in clock..MaxClock : MarkAllRead(u, now)

DeleteNotificationStep ==
    \E u \in DOMAIN users, n \in NotificationIdInputs : DeleteNotification(u, n)

\* The notification router over the rows that the creation of a ticket and
\* the status changes of an equipment leave.
InitNotifications == InitRows(Directories({"manager"}, {TRUE}), {1}, Schedules({1}, {0}))

NextNotifications ==
    \/ CreateTicketStep
    \/ UpdateEquipmentStatusStep
    \/ MarkNotificationReadStep
    \/ MarkAllReadStep
    \/ DeleteNotificationStep

SpecNotifications == InitNotifications /\ [][NextNotifications]_vars

\* ------------------------------------------------------------------ claims
RoleOf(u) == users[u].role

Recipients(rows) == {rows[i].user_id : i \in DOMAIN rows}

\* The rows a step appended to the notifications table.
Appended == SubSeq(notifications', Len(notifications) + 1, Len(notifications'))

\* C1: a step that takes a ticket of an existing equipment from a status
\* outside {resolved, closed} into that set raises the equipment's
\* repair_count by exactly one, also when the ticket re-enters the set.
C1_RepairCountPlusOneOnEntry ==
    [][\A t \in DOMAIN tickets :
          (/\ t \in DOMAIN tickets'
           /\ tickets[t].equipment_id \in DOMAIN equipment
           /\ tickets[t].status \notin TerminalStatuses
           /\ tickets'[t].status \in TerminalStatuses)
          => equipment'[tickets[t].equipment_id].repair_count
               = equipment[tickets[t].equipment_id].repair_count + 1]_vars

\* A ticket that entered the set, left it again and is about to re-enter it.
C1_Witness ==
    \E t \in DOMAIN tickets, u \in UserIds, p \in TicketUpdatePayloads(BOOLEAN) :
        LET e == tickets[t].equipment_id
            out == update_ticket(u, t, p)
        IN  /\ e \in DOMAIN equipment
            /\ tickets[t].status \notin TerminalStatuses
            /\ equipment[e].repair_count = 1
            /\ out.code = 200
            /\ out.tickets[t].status \in TerminalStatuses
            /\ out.equipment[e].repair_count = 2

\* C2: a step that changes a ticket whose status is in {resolved, closed}
\* and leaves it in that set does not change the equipment's repair_count.
C2_NoIncrementWithinTerminal ==
    [][\A t \in DOMAIN tickets :
          (/\ t \in DOMAIN tickets'
           /\ tickets[t].equipment_id \in DOMAIN equipment
           /\ tickets[t].status \in TerminalStatuses
           /\ tickets'[t].status \in TerminalStatuses)
          => equipment'[tickets[t].equipment_id].repair_count
               = equipment[tickets[t].equipment_id].repair_count]_vars

\* C3: update_ticket by a department_incharge caller with target status
\* resolved or closed answers 403 whatever the ticket's status, and the
\* ticket keeps its status.
C3_InchargeCannotResolveOrClose ==
    \A u \in UserIds, t \in DOMAIN tickets, p \in TicketUpdatePayloads(BOOLEAN) :
        (/\ RoleOf(u) = "department_incharge"
         /\ "status" \in DOMAIN p
         /\ p["status"] \in {"resolved", "closed"})
        => /\ update_ticket(u, t, p).code = 403
           /\ update_ticket(u, t, p).tickets[t].status = tickets[t].status

\* A department_incharge user asks to resolve a ticket that is in progress.
C3_Witness ==
    \E u \in UserIds, t \in DOMAIN tickets :
        /\ RoleOf(u) = "department_incharge"
        /\ tickets[t].status = "in_progress"
        /\ update_ticket(u, t, [status |-> "resolved"]).code = 403

\* C4: update_ticket with target status closed answers 200 only for a
\* manager or super_admin caller; for department_head, support and
\* department_incharge it answers 403 and does not make the ticket closed.
C4_CloseOnlyByManagerOrSuperAdmin ==
    \A u \in UserIds, t \in DOMAIN tickets, p \in TicketUpdatePayloads(BOOLEAN) :
        ("status" \in DOMAIN p /\ p["status"] = "closed")
        => /\ update_ticket(u, t, p).code = 200 => RoleOf(u) \in {"manager", "super_admin"}
           /\ RoleOf(u) \in {"department_head", "support", "department_incharge"}
                => /\ update_ticket(u, t, p).code = 403
                   /\ update_ticket(u, t, p).tickets[t].status = tickets[t].status

\* A department_head is refused and a manager is allowed to close the same
\* resolved ticket.
C4_Witness ==
    \E u \in UserIds, m \in UserIds, t \in DOMAIN tickets :
        /\ RoleOf(u) = "department_head"
        /\ RoleOf(m) = "manager"
        /\ tickets[t].status = "resolved"
        /\ update_ticket(u, t, [status |-> "closed"]).code = 403
        /\ update_ticket(m, t, [status |-> "closed"]).code = 200

\* C5: an update_ticket call that fails a permission check (403) commits
\* nothing: tickets, equipment and notifications are as before the call,
\* whatever else the payload carries.
C5_ForbiddenUpdateChangesNothing ==
    \A u \in UserIds, t \in DOMAIN tickets, p \in TicketUpdatePayloads(BOOLEAN) :
        update_ticket(u, t, p).code = 403
        => /\ update_ticket(u, t, p).tickets = tickets
           /\ update_ticket(u, t, p).equipment = equipment
           /\ update_ticket(u, t, p).notifications = notifications

\* A refused payload that also carries a new assignee and new text fields.
C5_Witness ==
    \E u \in UserIds, t \in DOMAIN tickets, p \in TicketUpdatePayloads(BOOLEAN) :
        /\ update_ticket(u, t, p).code = 403
        /\ "priority" \in DOMAIN p
        /\ p["priority"] /= tickets[t].priority
        /\ "assigned_to_user_id" \in DOMAIN p
        /\ p["assigned_to_user_id"] \in UserIds \ {tickets[t].assigned_to_user_id}

\* C6: update_ticket carrying assigned_to_user_id from a caller who is not a
\* manager or super_admin answers 403 and leaves the assignee as it was.
C6_AssignOnlyByManagerOrSuperAdmin ==
    \A u \in UserIds, t \in DOMAIN tickets, p \in TicketUpdatePayloads(BOOLEAN) :
        ("assigned_to_user_id" \in DOMAIN p /\ RoleOf(u) \notin {"manager", "super_admin"})
        => /\ update_ticket(u, t, p).code = 403
           /\ update_ticket(u, t, p).tickets[t].assigned_to_user_id
                = tickets[t].assigned_to_user_id

\* C7: every complete_maintenance that answers 200 sets last_maintenance_date
\* to the time of the call and next_maintenance_date exactly frequency_days
\* days later, whatever the dates were; a call at a later time than the last
\* completion changes the schedule.
C7_CompletionResetsSchedule ==
    \A u \in UserIds, s \in DOMAIN schedules, now \in clock..MaxClock :
        LET out == complete_maintenance(u, s, now)
            after == out.schedules[s]
            gap == after.next_maintenance_date - after.last_maintenance_date
        IN  out.code = 200
            => /\ after.last_maintenance_date = now
               /\ gap \div TicksPerDay = schedules[s].frequency_days
               /\ gap % TicksPerDay = 0
               /\ schedules[s].last_maintenance_date /= now => after /= schedules[s]

\* A schedule completed after its due date is completed again at once.
C7_Witness ==
    \E u \in UserIds, s \in DOMAIN schedules :
        /\ clock > 0
        /\ schedules[s].last_maintenance_date = clock
        /\ schedules[s].frequency_days = 2
        /\ schedules[s].next_maintenance_date = clock + 2 * TicksPerDay
        /\ complete_maintenance(u, s, clock).code = 200

\* C8: no notification row of an event is addressed to the user whose
\* request caused the event (ticket created, assigned, status changed,
\* equipment status changed, maintenance completed).
C8_ActorNeverNotified ==
    \A u \in UserIds, request \in Requests :
        LET events == EventsOf(u, request)
        IN  \A i \in DOMAIN events :
               /\ events[i].actor = u
               /\ u \notin Recipients(events[i].rows)

\* A manager who reported the ticket and is its assignee changes its status,
\* and somebody else is notified.
C8_Witness ==
    \E u \in UserIds, request \in Requests :
        /\ RoleOf(u) = "manager"
        /\ request[1] = "update_ticket"
        /\ tickets[request[2]].reported_by_user_id = u
        /\ tickets[request[2]].assigned_to_user_id = u
        /\ LET events == EventsOf(u, request)
           IN  \E i \in DOMAIN events :
                  /\ events[i].kind = "ticket_status_changed"
                  /\ events[i].rows /= <<>>

\* C9: the rows of one notification event have pairwise distinct user_id.
C9_OneRowPerRecipient ==
    \A u \in UserIds, request \in Requests :
        LET events == EventsOf(u, request)
        IN  \A i \in DOMAIN events : \A j, k \in DOMAIN events[i].rows :
               j /= k => events[i].rows[j].user_id /= events[i].rows[k].user_id

\* C10: the step that creates a ticket appends ticket_created rows for
\* exactly the active manager, support and department_head users other than
\* the creator.
C10_TicketCreatedRecipients ==
    [][\A t \in DOMAIN tickets' \ DOMAIN tickets :
          LET creator == tickets'[t].reported_by_user_id
          IN  /\ \A i \in DOMAIN Appended :
                    /\ Appended[i].notification_type = "ticket_created"
                    /\ Appended[i].related_entity_id = t
              /\ Recipients(Appended)
                   = {v \in DOMAIN users :
                        /\ users[v].is_active
                        /\ RoleOf(v) \notin {"super_admin", "department_incharge"}
                        /\ v /= creator}]_vars

\* A department_head created the ticket: the support user was notified, the
\* inactive manager and the creator were not.
C10_Witness ==
    \E t \in DOMAIN tickets :
        /\ RoleOf(tickets[t].reported_by_user_id) = "department_head"
        /\ ~users[2].is_active
        /\ Recipients(notifications) = {3}

\* The rows of the events of one kind among the events of a request.
RECURSIVE RowsOfKind(_, _)
RowsOfKind(events, kind) ==
    IF events = <<>> THEN <<>>
    ELSE (IF Head(events).kind = kind THEN Head(events).rows ELSE <<>>)
         \o RowsOfKind(Tail(events), kind)

\* C11: an update_ticket that changes the status notifies, for the status
\* change, exactly the reporter and the assignee of the ticket if set and not
\* the caller and, when the new status is resolved or closed, the active
\* managers other than the caller; an update that leaves the status alone
\* creates no status-change row.
C11_StatusChangeRecipients ==
    \A u \in UserIds, request \in Requests :
        request[1] = "update_ticket"
        => LET out == update_ticket(u, request[2], request[3])
               before == tickets[request[2]]
               after == out.tickets[request[2]]
               rows == RowsOfKind(out.events, "ticket_status_changed")
               people == {after.reported_by_user_id, after.assigned_to_user_id} \ {None, u}
               managers == {m \in DOMAIN users : /\ RoleOf(m) = "manager"
                                                 /\ users[m].is_active
                                                 /\ m /= u}
           IN  /\ out.code = 200 /\ before.status /= after.status
                  => /\ Recipients(rows)
                          = people \cup (IF after.status \in {"resolved", "closed"}
                                         THEN managers ELSE {})
                     /\ \A i \in DOMAIN rows :
                           /\ rows[i].notification_type = "ticket_status_changed"
                           /\ rows[i].related_entity_id = request[2]
               /\ out.code /= 200 \/ before.status = after.status => rows = <<>>

\* A manager resolves a ticket somebody else reported: the reporter and the
\* other, active manager are notified; moving the same ticket to in_progress
\* notifies the reporter alone.
C11_Witness ==
    \E u \in UserIds, m \in UserIds, t \in DOMAIN tickets :
        /\ RoleOf(u) = "manager" /\ RoleOf(m) = "manager" /\ m /= u
        /\ tickets[t].status = "open"
        /\ tickets[t].reported_by_user_id \notin {u, m}
        /\ Recipients(RowsOfKind(update_ticket(u, t, [status |-> "resolved"]).events,
                                 "ticket_status_changed"))
             = {tickets[t].reported_by_user_id, m}
        /\ Recipients(RowsOfKind(update_ticket(u, t, [status |-> "in_progress"]).events,
                                 "ticket_status_changed"))
             = {tickets[t].reported_by_user_id}

\* C12: update_ticket creates a ticket_assigned row exactly when the request
\* carries an assigned_to_user_id that names an existing user other than the
\* caller and other than the assignee so far; the row is the only one of that
\* kind and is addressed to the new assignee.
C12_AssignedNotification ==
    \A u \in UserIds, request \in Requests :
        request[1] = "update_ticket"
        => LET out == update_ticket(u, request[2], request[3])
               p == request[3]
               rows == RowsOfKind(out.events, "ticket_assigned")
               due == /\ out.code = 200
                      /\ "assigned_to_user_id" \in DOMAIN p
                      /\ p["assigned_to_user_id"] \in DOMAIN users
                      /\ p["assigned_to_user_id"] /= tickets[request[2]].assigned_to_user_id
                      /\ p["assigned_to_user_id"] /= u
           IN  /\ due => /\ Len(rows) = 1
                         /\ rows[1].user_id = p["assigned_to_user_id"]
                         /\ rows[1].notification_type = "ticket_assigned"
                         /\ rows[1].related_entity_id = request[2]
               /\ ~due => rows = <<>>

\* A ticket assigned to somebody: assigning it to a third user notifies that
\* user, while taking it oneself, repeating the assignee or clearing the
\* assignee notifies nobody.
C12_Witness ==
    \E u \in UserIds, v \in UserIds, t \in DOMAIN tickets :
        LET assigned(a) == RowsOfKind(update_ticket(u, t, [assigned_to_user_id |-> a]).events,
                                      "ticket_assigned")
        IN  /\ tickets[t].assigned_to_user_id \in UserIds \ {u, v}
            /\ v /= u
            /\ Recipients(assigned(v)) = {v}
            /\ assigned(u) = <<>>
            /\ assigned(tickets[t].assigned_to_user_id) = <<>>
            /\ assigned(None) = <<>>

\* C13: a request that changes an equipment's status (update_equipment_status
\* or update_equipment) notifies exactly the active users of the equipment's
\* department and the active manager, support and department_head users
\* outside it, the caller excepted; a request that leaves the status as it
\* was, or is refused, creates no notification.
C13_EquipmentStatusRecipients ==
    \A u \in UserIds, request \in Requests :
        request[1] \in {"update_equipment_status", "update_equipment"}
        => LET out == IF request[1] = "update_equipment"
                      THEN update_equipment(u, request[2], request[3])
                      ELSE update_equipment_status(u, request[2], request[3])
               before == equipment[request[2]]
               after == out.equipment[request[2]]
               rows == RowsOfKind(out.events, "equipment_status_changed")
               inDepartment == {v \in DOMAIN users :
                                  /\ after.department_id /= None
                                  /\ users[v].department_id = after.department_id
                                  /\ users[v].is_active}
               staffOutside == {v \in DOMAIN users :
                                  /\ RoleOf(v) \in {"manager", "support", "department_head"}
                                  /\ users[v].is_active
                                  /\ \/ after.department_id = None
                                     \/ users[v].department_id /= after.department_id}
           IN  /\ out.code = 200 /\ before.status /= after.status
                  => /\ Recipients(rows) = (inDepartment \cup staffOutside) \ {u}
                     /\ \A i \in DOMAIN rows :
                           /\ rows[i].notification_type = "equipment_status_changed"
                           /\ rows[i].related_entity_id = request[2]
               /\ out.code /= 200 \/ before.status = after.status
                  => out.notifications = notifications

\* Equipment of a department with an active department_incharge: a manager
\* taking it out of service notifies the incharge and the support user outside
\* the department, and repeating the present status notifies nobody.
C13_Witness ==
    \E u \in UserIds, v \in UserIds, e \in DOMAIN equipment :
        /\ RoleOf(u) = "manager"
        /\ RoleOf(v) = "department_incharge"
        /\ users[v].department_id = equipment[e].department_id
        /\ equipment[e].status = "retired"
        /\ {v, 3} \subseteq Recipients(RowsOfKind(
                update_equipment_status(u, e, "out_of_service").events,
                "equipment_status_changed"))
        /\ update_equipment(u, e, [status |-> "retired"]).notifications = notifications
        /\ update_equipment(u, e, [status |-> "retired"]).code = 200

\* C14: notify_maintenance_due creates at most one row, addressed to the
\* schedule's assigned user: of type maintenance_due exactly when the schedule
\* has an assigned user and an equipment row and 0 <= days_until <= 7, of type
\* maintenance_overdue exactly when it has both and days_until < 0, and no row
\* otherwise.
C14_MaintenanceDueNotification ==
    \A s \in DOMAIN schedules, now \in clock..MaxClock :
        LET schedule == schedules[s]
            rows == notify_maintenance_due(s, schedule, now)
            ticks == schedule.next_maintenance_date - now
            addressed == /\ schedule.assigned_to_user_id /= None
                         /\ schedule.equipment_id \in DOMAIN equipment
            types == {rows[i].notification_type : i \in DOMAIN rows}
        IN  /\ Len(rows) <= 1
            /\ \A i \in DOMAIN rows : /\ rows[i].user_id = schedule.assigned_to_user_id
                                       /\ rows[i].related_entity_id = s
            /\ types = IF addressed /\ ticks < 0 THEN {"maintenance_overdue"}
                       ELSE IF addressed /\ ticks < timedelta_days(8) THEN {"maintenance_due"}
                       ELSE {}

\* A schedule due exactly seven days after the first call and less than seven
\* days after the second: both calls told the assigned user it is due, and a
\* call exactly eight days before a due date would tell nobody.
C14_Witness ==
    \E s \in DOMAIN schedules :
        /\ clock > 0
        /\ schedules[s].next_maintenance_date = timedelta_days(7)
        /\ Len(notifications) = 2
        /\ \A i \in DOMAIN notifications :
              /\ notifications[i].notification_type = "maintenance_due"
              /\ notifications[i].user_id = schedules[s].assigned_to_user_id
        /\ notify_maintenance_due(s, [schedules[s] EXCEPT !.next_maintenance_date =
                                                          timedelta_days(8) + clock], clock) = <<>>

\* C15: a step that takes an equipment's status into out_of_service (the down
\* state) sets is_currently_down and records last_downtime_start, a step that
\* takes it out of that state clears is_currently_down and adds the time since
\* last_downtime_start to total_downtime_minutes, and after every step
\* is_currently_down tells whether the status is out_of_service.
C15_DowntimeTracked ==
    [][\A e \in DOMAIN equipment \cap DOMAIN equipment' :
          LET before == equipment[e]
              after == equipment'[e]
              down(status) == status = "out_of_service"
          IN  /\ ~down(before.status) /\ down(after.status)
                 => /\ after.is_currently_down
                    /\ after.last_downtime_start = clock'
              /\ down(before.status) /\ ~down(after.status)
                 => /\ ~after.is_currently_down
                    /\ after.total_downtime_minutes
                         = before.total_downtime_minutes + (clock' - before.last_downtime_start)
              /\ after.is_currently_down = down(after.status)]_vars

\* C16: no request lowers an equipment's repair_count; the only request that
\* changes it is an update_ticket that moves a ticket of that equipment into
\* resolved or closed; create_ticket, create_equipment,
\* update_equipment_status, update_equipment and complete_maintenance, with
\* the notifications they send, leave repair_count and total_downtime_minutes
\* of every equipment as they were.
C16_RepairCountFrame ==
    \A u \in UserIds, request \in Requests :
        LET out == OutcomeOf(u, request) IN
        \A e \in DOMAIN equipment :
            /\ e \in DOMAIN out.equipment
            /\ out.equipment[e].repair_count >= equipment[e].repair_count
            /\ out.equipment[e].repair_count /= equipment[e].repair_count
               => /\ request[1] = "update_ticket"
                  /\ out.tickets[request[2]].equipment_id = e
                  /\ out.tickets[request[2]].status \in {"resolved", "closed"}
                  /\ out.tickets[request[2]].status /= tickets[request[2]].status
            /\ request[1] /= "update_ticket"
               => out.equipment[e].total_downtime_minutes
                    = equipment[e].total_downtime_minutes

\* An equipment that has been repaired and is out of service: putting it back
\* into service, editing it, creating equipment or a ticket and completing its
\* maintenance all succeed, and resolving a ticket of it counts a repair.
C16_Witness ==
    \E u \in UserIds, e \in DOMAIN equipment, t \in DOMAIN tickets :
        /\ equipment[e].repair_count = 1
        /\ equipment[e].status = "out_of_service"
        /\ tickets[t].equipment_id = e
        /\ tickets[t].status = "in_progress"
        /\ update_ticket(u, t, [status |-> "resolved"]).equipment[e].repair_count = 2
        /\ update_equipment_status(u, e, "active").code = 200
        /\ update_equipment(u, e, [status |-> "active", department_id |-> None]).code = 200
        /\ \E p \in EquipmentCreatePayloads :
              create_equipment(u, NewEquipmentId, p).code = 200
        /\ \E s \in DOMAIN schedules :
              /\ schedules[s].equipment_id = e
              /\ complete_maintenance(u, s, clock).code = 200

\* The place of a status in the order open < in_progress < resolved < closed.
StatusRank(status) ==
    CASE status = "open" -> 0
      [] status = "in_progress" -> 1
      [] status = "resolved" -> 2
      [] status = "closed" -> 3

\* C17: every ticket starts in open, and no step takes a ticket from a status
\* to an earlier one in the order open < in_progress < resolved < closed.
C17_StatusMovesForward ==
    [][\A t \in DOMAIN tickets' :
          IF t \in DOMAIN tickets
          THEN StatusRank(tickets'[t].status) >= StatusRank(tickets[t].status)
          ELSE tickets'[t].status = "open"]_vars

\* C18: create_ticket by a caller of any role for an existing equipment
\* succeeds and adds a ticket with status open, the caller as reporter and
\* from_department the name of the equipment's department, or "Unknown" when
\* it has none; it changes no equipment row, so no repair_count.
C18_CreateTicketFields ==
    \A u \in UserIds, p \in TicketCreatePayloads :
        (TicketIds \ DOMAIN tickets /= {} /\ p.equipment_id \in DOMAIN equipment)
        => LET out == create_ticket(u, NewTicketId, p)
               eq == equipment[p.equipment_id]
           IN  /\ out.code = 200
               /\ DOMAIN out.tickets = DOMAIN tickets \cup {NewTicketId}
               /\ out.tickets[NewTicketId].status = "open"
               /\ out.tickets[NewTicketId].reported_by_user_id = u
               /\ out.tickets[NewTicketId].equipment_id = p.equipment_id
               /\ out.tickets[NewTicketId].from_department
                    = IF eq.department_id = None THEN "Unknown"
                      ELSE departments[eq.department_id].name
               /\ out.equipment = equipment

\* A department_incharge has created a ticket for an equipment that has no
\* department.
C18_Witness ==
    \E t \in DOMAIN tickets :
        /\ RoleOf(tickets[t].reported_by_user_id) = "department_incharge"
        /\ tickets[t].status = "open"
        /\ tickets[t].from_department = "Unknown"
        /\ equipment[tickets[t].equipment_id].department_id = None
        /\ equipment[tickets[t].equipment_id].repair_count = 0

\* C19: delete_equipment by a caller who is not a super_admin answers 403,
\* for an equipment id with a row and for one without, and leaves the
\* equipment, its tickets and maintenance schedules and every other table as
\* they were.
C19_DeleteEquipmentForbidden ==
    \A u \in DOMAIN users, e \in EquipIdInputs :
        RoleOf(u) /= "super_admin"
        => LET out == delete_equipment(u, e)
           IN  /\ out.code = 403
               /\ out.equipment = equipment
               /\ out.tickets = tickets
               /\ out.schedules = schedules
               /\ out.notifications = notifications
               /\ out.users = users
               /\ out.departments = departments
               /\ out.suppliers = suppliers

\* An equipment with a ticket and a maintenance schedule: the support user is
\* refused for it and for an id without a row, while the super_admin's delete
\* would remove the equipment with its ticket and schedule.
C19_Witness ==
    \E u \in DOMAIN users, a \in DOMAIN users, e \in DOMAIN equipment :
        /\ RoleOf(u) = "support"
        /\ RoleOf(a) = "super_admin"
        /\ \E t \in DOMAIN tickets : tickets[t].equipment_id = e
        /\ \E s \in DOMAIN schedules : schedules[s].equipment_id = e
        /\ delete_equipment(u, e).code = 403
        /\ \E missing \in EquipIdInputs \ DOMAIN equipment :
              delete_equipment(u, missing).code = 403
        /\ delete_equipment(a, e).code = 200
        /\ delete_equipment(a, e).tickets = <<>>
        /\ delete_equipment(a, e).schedules = <<>>

\* C20: a delete of an equipment, a department, a user, a maintenance
\* schedule or a supplier by a caller who is not a super_admin answers 403 and
\* removes nothing.
C20_DeleteOnlyBySuperAdmin ==
    \A u \in DOMAIN users :
        LET deletes ==
                {delete_equipment(u, e) : e \in DOMAIN equipment}
                \cup {delete_department(u, d) : d \in DOMAIN departments}
                \cup {delete_user(u, v) : v \in DOMAIN users}
                \cup {delete_maintenance_schedule(u, sc) : sc \in DOMAIN schedules}
                \cup {delete_supplier(u, sp) : sp \in DOMAIN suppliers}
        IN  RoleOf(u) /= "super_admin"
            => \A out \in deletes :
                  /\ out.code = 403
                  /\ DOMAIN out.equipment = DOMAIN equipment
                  /\ DOMAIN out.departments = DOMAIN departments
                  /\ DOMAIN out.users = DOMAIN users
                  /\ DOMAIN out.schedules = DOMAIN schedules
                  /\ DOMAIN out.suppliers = DOMAIN suppliers

\* C21: only a super_admin caller adds a user row, changes a user's role or
\* active flag, or adds a department: every such request from anyone else
\* leaves the users and the departments as they were.
C21_UsersAndDepartmentsBySuperAdminOnly ==
    /\ \A p \in UserCreatePayloads :
          RegisteredUserIds \ DOMAIN users /= {}
          => register_user(NewUserId, p).users = users
    /\ \A u \in DOMAIN users :
          RoleOf(u) /= "super_admin"
          => /\ \A v \in DOMAIN users, p \in UserUpdatePayloads :
                   /\ update_user(u, v, p).code = 403
                   /\ update_user(u, v, p).users = users
             /\ \A p \in DepartmentCreatePayloads :
                   CreatedDeptIds \ DOMAIN departments /= {}
                   => /\ create_department(u, NewDepartmentId, p).code = 403
                      /\ create_department(u, NewDepartmentId, p).departments = departments

C23_InchargeReadsRefused ==
    \A u \in DOMAIN users :
        RoleOf(u) = "department_incharge"
        => /\ \A s \in EquipmentStatus \cup {""}, d \in DeptIds \cup {None} :
                 list_equipment(u, s, d).code = 403
           /\ \A e \in DOMAIN equipment : get_equipment(u, e).code = 403
           /\ list_departments(u).code = 403
           /\ \A d \in DOMAIN departments : get_department(u, d).code = 403
           /\ \A t \in TicketIds \ DOMAIN tickets, p \in TicketCreatePayloads :
                 create_ticket(u, t, p).code /= 403

\* C24: notification rows are added only by a request whose entity mutation
\* is already committed, in steps that leave tickets, equipment and schedules
\* alone; and a request that fails or crashes while its notifications are
\* being dispatched leaves the committed tickets, equipment and schedules as
\* they are.
C24_CommitBeforeNotify ==
    [][/\ notifications' /= notifications
          => /\ \E s \in SessionIds :
                   /\ sessions[s].pc = "notifying"
                   /\ Appended = Head(sessions[s].pending).rows
             /\ UNCHANGED <<tickets, equipment, schedules>>
       /\ \A s \in SessionIds :
             (sessions[s].pc = "notifying" /\ sessions'[s] = Idle)
             => UNCHANGED <<tickets, equipment, schedules>>]_vars

\* A ticket was resolved and its equipment counted the repair, the request
\* died before its notifications, and none was ever written.
C24_Witness ==
    /\ \A s \in SessionIds : sessions[s] = Idle
    /\ notifications = <<>>
    /\ \E t \in DOMAIN tickets :
          /\ tickets[t].status = "resolved"
          /\ equipment[tickets[t].equipment_id].repair_count = 1

\* C25: with update_ticket requests in flight at once on different tickets of
\* the same equipment, no increment is lost: whenever a request that loaded
\* its ticket outside {resolved, closed} commits it into that set, the
\* equipment's repair_count grows by exactly one in that commit, so two such
\* requests leave it two higher.
C25_ConcurrentIncrementsBothCount ==
    [][\A s \in SessionIds :
          LET r == sessions[s]
          IN  (/\ r.pc = "counted"
               /\ sessions'[s] /= r
               /\ r.loaded.status \notin TerminalStatuses
               /\ tickets[r.ticket_id].status \notin TerminalStatuses
               /\ tickets'[r.ticket_id].status \in TerminalStatuses)
              => equipment'[r.ticket.equipment_id].repair_count
                   = equipment[r.ticket.equipment_id].repair_count + 1]_vars

\* C27: tickets and equipment change only in the commit of an update_ticket
\* call, and that one commit stores the call's status and the repair_count it
\* counted together: a status stored into {resolved, closed} comes with the
\* counted repair_count, and a stored repair_count comes with the status. A
\* call that dies at any other step stores neither.
C27_StatusAndCountInOneCommit ==
    [][(tickets' /= tickets \/ equipment' /= equipment)
       => \E s \in SessionIds :
             LET r == sessions[s]
                 e == r.ticket.equipment_id
             IN  /\ r.pc = "counted"
                 /\ sessions'[s] /= r
                 /\ tickets'[r.ticket_id].status = r.ticket.status
                 /\ IF repair_increment_due(r.loaded.status, r.ticket.status)
                    THEN /\ r.ticket.status \in TerminalStatuses
                         /\ equipment'[e].repair_count = r.repair_count
                    ELSE equipment' = equipment]_vars

\* A request has just committed: its ticket is resolved, the repair is
\* counted, and its notifications are still to be sent.
C27_Witness ==
    \E s \in SessionIds, t \in DOMAIN tickets :
        /\ sessions[s].pc = "notifying"
        /\ tickets[t].status = "resolved"
        /\ equipment[tickets[t].equipment_id].repair_count = 1

\* C28: with two update_ticket requests in flight on the same ticket, both
\* having loaded it outside {resolved, closed}, the repair is counted once:
\* the request that commits after the other has taken the ticket into the set
\* leaves repair_count as it is.
C28_SameTicketCountsOnce ==
    [][\A s \in SessionIds :
          LET r == sessions[s]
          IN  (/\ r.pc = "counted"
               /\ sessions'[s] /= r
               /\ r.loaded.status \notin TerminalStatuses
               /\ tickets[r.ticket_id].status \in TerminalStatuses)
              => equipment'[r.ticket.equipment_id].repair_count
                   = equipment[r.ticket.equipment_id].repair_count]_vars

\* super_admin > manager > department_head > support > department_incharge
PrivilegeRank(role) ==
    CASE role = "super_admin" -> 5
      [] role = "manager" -> 4
      [] role = "department_head" -> 3
      [] role = "support" -> 2
      [] role = "department_incharge" -> 1

\* C26: every predicate of permissions.py is monotone in the privilege order:
\* a capability granted to a role is granted to every higher role, for the
\* roles of the users there are and for every pair of roles, and super_admin
\* is granted every capability.
C26_CapabilitiesMonotone ==
    /\ \A c \in Capabilities, lower \in UserRole, higher \in UserRole :
          (PrivilegeRank(lower) <= PrivilegeRank(higher) /\ Granted(c, lower))
          => Granted(c, higher)
    /\ \A c \in Capabilities : Granted(c, "super_admin")
    /\ \A c \in Capabilities, u \in DOMAIN users, v \in DOMAIN users :
          (PrivilegeRank(RoleOf(u)) <= PrivilegeRank(RoleOf(v)) /\ Granted(c, RoleOf(u)))
          => Granted(c, RoleOf(v))

\* A registered department_head next to a support user: the head is granted
\* what the support user is granted, and more.
C26_Witness ==
    \E u \in DOMAIN users, v \in DOMAIN users \cap RegisteredUserIds :
        /\ RoleOf(u) = "support"
        /\ RoleOf(v) = "department_head"
        /\ \E c \in Capabilities : Granted(c, RoleOf(u))
        /\ \E c \in Capabilities : Granted(c, RoleOf(v)) /\ ~Granted(c, RoleOf(u))

\* The tickets caller u can obtain: through list_tickets under any filters
\* and through get_ticket.
TicketsObtainable(u) ==
    UNION {list_tickets(u, s, a).body : s \in TicketStatus \cup {""}, a \in UserIds \cup {None}}
    \cup UNION {get_ticket(u, t).body : t \in TicketIds}

\* C29: a support caller obtains only tickets assigned to the caller, a
\* department_incharge caller only tickets the caller reported, and a caller
\* for whom can_view_all_tickets does not hold obtains no ticket that is
\* neither assigned to nor reported by the caller.
C29_TicketReadsByRole ==
    \A u \in DOMAIN users :
        \A t \in TicketsObtainable(u) :
            /\ RoleOf(u) = "support" => tickets[t].assigned_to_user_id = u
            /\ RoleOf(u) = "department_incharge" => tickets[t].reported_by_user_id = u
            /\ ~can_view_all_tickets(RoleOf(u))
                  => u \in {tickets[t].assigned_to_user_id, tickets[t].reported_by_user_id}

\* C30: a user's notification operations touch only that user's own rows and
\* no source entity. mark_notification_read and delete_notification on a row
\* of another user (or on no row) answer 404 and change nothing;
\* mark_all_read leaves the rows of every other user as they are and leaves
\* the caller with no unread row; marking a read notification again keeps
\* its read_at; delete_notification removes the caller's row only; and no
\* operation changes a ticket, an equipment or a maintenance schedule.
C30_NotificationOperationsOwnRowsOnly ==
    \A u \in DOMAIN users, now \in clock..MaxClock :
        /\ LET a == mark_all_read(u, now) IN
             /\ a.code = 200
             /\ a.tickets = tickets /\ a.equipment = equipment /\ a.schedules = schedules
             /\ DOMAIN a.notifications = DOMAIN notifications
             /\ \A i \in DOMAIN notifications :
                   /\ notifications[i].user_id /= u => a.notifications[i] = notifications[i]
                   /\ notifications[i].is_read => a.notifications[i] = notifications[i]
                   /\ a.notifications[i].user_id = u => a.notifications[i].is_read
        /\ \A n \in NotificationIdInputs :
             LET m == mark_notification_read(u, n, now)
                 d == delete_notification(u, n)
                 own == n \in DOMAIN notifications /\ notifications[n].user_id = u
             IN  /\ m.tickets = tickets /\ m.equipment = equipment /\ m.schedules = schedules
                 /\ d.tickets = tickets /\ d.equipment = equipment /\ d.schedules = schedules
                 /\ ~own => /\ m.code = 404 /\ m.notifications = notifications
                            /\ d.code = 404 /\ d.notifications = notifications
                 /\ own => /\ m.code = 200
                           /\ DOMAIN m.notifications = DOMAIN notifications
                           /\ \A i \in DOMAIN notifications \ {n} :
                                 m.notifications[i] = notifications[i]
                           /\ m.notifications[n].is_read
                           /\ notifications[n].is_read => m.notifications = notifications
                           /\ d.code = 200
                           /\ NotificationsNotOf(d.notifications, u)
                                = NotificationsNotOf(notifications, u)
                           /\ Len(d.notifications) = Len(notifications) - 1

\* Reached: one user's notification was read at an earlier time than now
\* while an unread notification of another user is in the table.
C30_Witness ==
    \E i, j \in DOMAIN notifications :
        /\ notifications[i].is_read
        /\ notifications[i].read_at < clock
        /\ notifications[j].user_id /= notifications[i].user_id
        /\ ~notifications[j].is_read

====
